---- MODULE Spec2Model ----
(***************************************************************************)
(* Model of examples/levelSet/electroChem/gapFillMesh.py: the constructor  *)
(* GapFillMesh.__init__, which derives three grid counts from five         *)
(* physical sizes, builds the fine Grid2D mesh, picks the cell-size offset *)
(* eps from the gmsh version and hands a "%g"-formatted geometry script    *)
(* to Gmsh2D.__init__.                                                     *)
(*                                                                         *)
(* The sizes are whole multiples of the length unit, passed either all as  *)
(* Python floats (3 stands for 3.0) or all as Python ints (argType).  The  *)
(* module is Python 2 without "from __future__ import division": a / b is  *)
(* the float quotient when an operand is a float and the floor of the      *)
(* quotient when both are ints.  For whole-number floats the products,     *)
(* differences and truncated quotients of lines 141-148 are exact.  eps    *)
(* is a quotient that is seldom a whole number and is kept as a fraction   *)
(* num/den.  A value formatted with "%g" is kept as the decimal it         *)
(* denotes, mant * 10^exp, with at most SigDigits significant digits.      *)
(***************************************************************************)
EXTENDS Integers, FiniteSets, Sequences, TLC

(* ------------------------------ bounds -------------------------------- *)
NegRange == 1
MaxCellSize == 2
MaxWidth == 4
MaxHeight == 6
MaxFineHeight == 3
MaxTransition == 2

CellSizes == (0 - NegRange)..MaxCellSize
Widths == (0 - NegRange)..MaxWidth
Heights == 0..MaxHeight
FineHeights == 0..MaxFineHeight
Transitions == 0..MaxTransition

(* gmsh versions <<major, minor>> that _gmshVersion() may report *)
GmshVersions == {<<2, 6>>, <<2, 7>>, <<3, 0>>}
Communicators == {"serialComm", "parallelComm"}

ArgTypes == {"float", "int"}

VARIABLES
    argType,       \* the Python type of the five sizes passed
    cellSize, desiredDomainWidth, desiredDomainHeight,
    desiredFineRegionHeight, transitionRegionHeight, communicator,
    gmshVersion,   \* what _gmshVersion() returns in this environment
    locals,        \* the local variables assigned so far (name -> value)
    self,          \* the attributes of the object set so far
    gmshCall,      \* the arguments received by Gmsh2D.__init__, if called
    exception,     \* the exception leaving the constructor, or "none"
    pc,            \* position in the constructor
    prev           \* outcome of the previous construction, if any

vars == <<argType, cellSize, desiredDomainWidth, desiredDomainHeight,
          desiredFineRegionHeight, transitionRegionHeight, communicator,
          gmshVersion, locals, self, gmshCall, exception, pc, prev>>

sizes == <<argType, cellSize, desiredDomainWidth, desiredDomainHeight,
           desiredFineRegionHeight, transitionRegionHeight>>

Empty == [n \in {} |-> 0]

Has(f, name) == name \in DOMAIN f

(* ----------------------------- arithmetic ----------------------------- *)
Abs(a) == IF a < 0 THEN 0 - a ELSE a

(* floor of a / b *)
FloorQuotient(a, b) ==
    LET q == Abs(a) \div Abs(b)
    IN  IF (a < 0) = (b < 0) \/ a = 0
        THEN q
        ELSE IF q * Abs(b) = Abs(a) THEN 0 - q ELSE 0 - (q + 1)

(* a / b truncated toward zero *)
TruncatedQuotient(a, b) ==
    LET q == Abs(a) \div Abs(b)
    IN  IF (a < 0) = (b < 0) THEN q ELSE 0 - q

(* a division that floors whatever the operands are *)
IntOfFlooredQuotient(a, b, ints) == FloorQuotient(a, b)

(* a division that rounds to the nearest whole number, halves away from 0 *)
IntOfRoundedQuotient(a, b, ints) ==
    LET q == (2 * Abs(a) + Abs(b)) \div (2 * Abs(b))
    IN  IF (a < 0) = (b < 0) THEN q ELSE 0 - q

(* int(a / b) for b # 0.  With both operands ints (ints = TRUE) the "/"   *)
(* of Python 2 is the floor of the quotient, already a whole number; with *)
(* a float operand it is the float quotient, which int() truncates toward *)
(* zero.                                                                  *)
IntOfQuotient(a, b, ints) ==
    IF ints THEN FloorQuotient(a, b) ELSE TruncatedQuotient(a, b)

(* all five sizes are ints, so every operand of lines 141-148 is an int *)
IntOperands == argType = "int"

(* ------------------------- "%g" formatting ---------------------------- *)
SigDigits == 6   \* precision of a "%g" conversion without explicit precision

RECURSIVE Pow10(_)
Pow10(k) == IF k = 0 THEN 1 ELSE 10 * Pow10(k - 1)

(* n/d > 0 scaled by a power of ten into [10^(SigDigits-1), 10^SigDigits):  *)
(* the result [n, d, e] satisfies n/d * 10^e = the value given             *)
RECURSIVE Scale(_, _, _)
Scale(n, d, e) ==
    IF n < Pow10(SigDigits - 1) * d THEN Scale(10 * n, d, e - 1)
    ELSE IF n >= Pow10(SigDigits) * d THEN Scale(n, 10 * d, e + 1)
    ELSE [n |-> n, d |-> d, e |-> e]

(* a decimal without trailing zeros in its mantissa *)
RECURSIVE Strip(_, _)
Strip(m, e) ==
    IF m = 0 THEN [mant |-> 0, exp |-> 0]
    ELSE IF m % 10 = 0 THEN Strip(m \div 10, e + 1)
    ELSE [mant |-> m, exp |-> e]

(* e with 2^e <= n/d < 2^(e+1), for n, d > 0 *)
RECURSIVE Log2Floor(_, _)
Log2Floor(n, d) ==
    IF n < d THEN Log2Floor(2 * n, d) - 1
    ELSE IF n >= 2 * d THEN Log2Floor(n, 2 * d) + 1
    ELSE 0

(* (x * 2^k) % d, for 0 <= x < d *)
RECURSIVE DoubleMod(_, _, _)
DoubleMod(x, k, d) == IF k <= 0 THEN x ELSE DoubleMod((2 * x) % d, k - 1, d)

MantissaBits == 53   \* significand of a Python float (IEEE 754 double)

(* The sign of float(n) / d - n/d for n, d > 0: the float quotient is n/d *)
(* rounded to MantissaBits significant bits, so the remainder of          *)
(* n * 2^k / d, with k making the quotient a MantissaBits-bit number,     *)
(* tells whether the float lies below, on or above n/d.  (A remainder of  *)
(* exactly d/2 needs more bits than n has and does not occur.)            *)
FloatError(n, d) ==
    LET k == (MantissaBits - 1) - Log2Floor(n, d)
        r == DoubleMod(n % d, k, d)
    IN  IF r = 0 THEN 0 ELSE IF 2 * r < d THEN 0 - 1 ELSE 1

(* The number "%g" % (float(num) / den) prints: the float quotient        *)
(* rounded to SigDigits significant digits, trailing zeros dropped.  The  *)
(* C library rounds the exact binary value of the float to nearest and an *)
(* exact tie to the even digit.  The float is so close to num/den that    *)
(* the two round alike unless num/den itself is a tie in the digit after  *)
(* the last; then the float's own rounding error decides, and a float     *)
(* that is exactly num/den goes to the even digit.                        *)
FormatG(num, den) ==
    IF num = 0 THEN [mant |-> 0, exp |-> 0]
    ELSE LET s    == Scale(Abs(num), Abs(den), 0)
             lo   == s.n \div s.d
             rem2 == 2 * (s.n % s.d)
             err  == FloatError(Abs(num), Abs(den))
             up   == \/ rem2 > s.d
                     \/ rem2 = s.d /\ (err > 0 \/ (err = 0 /\ lo % 2 = 1))
             r    == Strip(IF up THEN lo + 1 ELSE lo, s.e)
         IN  IF (num < 0) = (den < 0) THEN r
             ELSE [mant |-> 0 - r.mant, exp |-> r.exp]

(* "%g" of a whole number *)
FormatInt(n) == FormatG(n, 1)

(* ----------------------------- comparison ----------------------------- *)
VersionNotAfter(v, w) == v[1] < w[1] \/ (v[1] = w[1] /\ v[2] <= w[2])

(* StrictVersion.__lt__ on <<major, minor>> *)
VersionBefore(v, w) == v[1] < w[1] \/ (v[1] = w[1] /\ v[2] < w[2])

KludgeVersion == <<2, 7>>

(* --------------------------- the constructor -------------------------- *)
BoundaryLayerHeightIgnoringFine(desiredHeight, fineHeight, transitionHeight) ==
    desiredHeight - transitionHeight

(* line 147 *)
BoundaryLayerHeight(desiredHeight, fineHeight, transitionHeight) ==
    desiredHeight - fineHeight - transitionHeight

(* lines 153-157: the offset of the characteristic length, as a fraction *)
Eps(size, nx, version) ==
    IF VersionBefore(version, KludgeVersion)
    THEN [num |-> size, den |-> nx * 10]
    ELSE [num |-> 0, den |-> 1]

PassedCommunicator == communicator

(* line 151: the communicator of the fine mesh *)
FineMeshCommunicator == "serialComm"

(* lines 160-166: the values substituted into the script template; the   *)
(* rest of the template is constant text                                  *)
GmshScript(l, size, transitionHeight) ==
    [ny                         |-> FormatInt(l.ny),
     cellSize                   |-> FormatInt(size),
     eps                        |-> FormatG(l.eps.num, l.eps.den),
     height                     |-> FormatInt(l.actualFineRegionHeight),
     width                      |-> FormatInt(l.actualDomainWidth),
     boundaryLayerHeight        |-> FormatInt(l.boundaryLayerHeight),
     transitionRegionHeight     |-> FormatInt(transitionHeight),
     numberOfBoundaryLayerCells |-> FormatInt(l.numberOfBoundaryLayerCells)]

Raise(name) ==
    /\ pc' = "raised"
    /\ exception' = name

(* a constructor that swallows the division error of line 148 and goes on *)
(* with no boundary-layer cells                                           *)
SizingGuarded ==
    /\ pc = "called"
    /\ cellSize # 0
    /\ LET nx  == IntOfQuotient(desiredDomainWidth, cellSize, IntOperands)
           ny  == IntOfQuotient(desiredFineRegionHeight, cellSize, IntOperands)
           bLH == desiredDomainHeight - ny * cellSize - transitionRegionHeight
       IN  locals' = [nx |-> nx, ny |-> ny,
                      actualFineRegionHeight |-> ny * cellSize,
                      actualDomainWidth |-> nx * cellSize,
                      boundaryLayerHeight |-> bLH,
                      numberOfBoundaryLayerCells |->
                          IF nx * cellSize = 0 THEN 0
                          ELSE IntOfQuotient(bLH, nx * cellSize, IntOperands)]
    /\ pc' = "sized"
    /\ UNCHANGED <<sizes, communicator, gmshVersion, self, gmshCall,
                   exception, prev>>

(* lines 141-148: the sizing arithmetic.  A division by zero, of floats   *)
(* or of ints, raises                                                     *)
(* ZeroDivisionError, at line 141 when cellSize is 0 and at line 148 when *)
(* actualDomainWidth is 0; nothing in the constructor catches it.         *)
Sizing ==
    /\ pc = "called"
    /\ IF cellSize = 0
       THEN /\ Raise("ZeroDivisionError")
            /\ UNCHANGED locals
       ELSE LET nx  == IntOfQuotient(desiredDomainWidth, cellSize, IntOperands)
                ny  == IntOfQuotient(desiredFineRegionHeight, cellSize, IntOperands)
                aFH == ny * cellSize
                aDW == nx * cellSize
                bLH == BoundaryLayerHeight(desiredDomainHeight, aFH,
                                           transitionRegionHeight)
                l   == [nx |-> nx, ny |-> ny,
                        actualFineRegionHeight |-> aFH,
                        actualDomainWidth |-> aDW,
                        boundaryLayerHeight |-> bLH]
            IN  IF aDW = 0
                THEN /\ Raise("ZeroDivisionError")
                     /\ locals' = l
                ELSE /\ locals' = [n \in DOMAIN l \cup {"numberOfBoundaryLayerCells"} |->
                                     IF n \in DOMAIN l THEN l[n]
                                     ELSE IntOfQuotient(bLH, aDW, IntOperands)]
                     /\ pc' = "sized"
                     /\ UNCHANGED exception
    /\ UNCHANGED <<sizes, communicator, gmshVersion, self, gmshCall, prev>>

(* line 151: the fine region mesh; Grid2D is library code and is taken to *)
(* keep the arguments it is given                                         *)
BuildFineMesh ==
    /\ pc = "sized"
    /\ self' = [n \in {"fineMesh"} |->
                  [nx |-> locals.nx, ny |-> locals.ny,
                   dx |-> cellSize, dy |-> cellSize,
                   communicator |-> FineMeshCommunicator]]
    /\ pc' = "fineBuilt"
    /\ UNCHANGED <<sizes, communicator, gmshVersion, locals, gmshCall,
                   exception, prev>>

(* lines 153-157 *)
ChooseEps ==
    /\ pc = "fineBuilt"
    /\ locals' = [n \in DOMAIN locals \cup {"eps"} |->
                    IF n = "eps" THEN Eps(cellSize, locals.nx, gmshVersion)
                    ELSE locals[n]]
    /\ pc' = "epsChosen"
    /\ UNCHANGED <<sizes, communicator, gmshVersion, self, gmshCall,
                   exception, prev>>

(* lines 159-189: the call of Gmsh2D.__init__ with the formatted script   *)
(* and the communicator; Gmsh2D is library code                           *)
CallGmsh2D ==
    /\ pc = "epsChosen"
    /\ gmshCall' = [arg |-> GmshScript(locals, cellSize, transitionRegionHeight),
                    communicator |-> communicator]
    /\ pc' = "done"
    /\ UNCHANGED <<sizes, communicator, gmshVersion, locals, self,
                   exception, prev>>

(* lines 116-122: the caller constructs another GapFillMesh from the same *)
(* five sizes, with a communicator of its choice; the outcome of the      *)
(* construction that just ended is kept in prev                           *)
Construct ==
    /\ pc \in {"done", "raised"}
    /\ prev' = [communicator |-> communicator, locals |-> locals,
                self |-> self, gmshCall |-> gmshCall,
                exception |-> exception]
    /\ communicator' \in Communicators
    /\ locals' = Empty
    /\ self' = Empty
    /\ gmshCall' = Empty
    /\ exception' = "none"
    /\ pc' = "called"
    /\ UNCHANGED <<sizes, gmshVersion>>

Init ==
    /\ argType \in ArgTypes
    /\ cellSize \in CellSizes
    /\ desiredDomainWidth \in Widths
    /\ desiredDomainHeight \in Heights
    /\ desiredFineRegionHeight \in FineHeights
    /\ transitionRegionHeight \in Transitions
    /\ communicator \in Communicators
    /\ gmshVersion \in GmshVersions
    /\ locals = Empty
    /\ self = Empty
    /\ gmshCall = Empty
    /\ exception = "none"
    /\ pc = "called"
    /\ prev = Empty

Next ==
    \/ Sizing
    \/ BuildFineMesh
    \/ ChooseEps
    \/ CallGmsh2D
    \/ Construct

Spec == Init /\ [][Next]_vars

(* ============================== properties ============================ *)
(* n is the quotient a / b truncated toward zero: n lies between 0 and    *)
(* a / b, less than one away from a / b                                   *)
IsTruncatedQuotient(n, a, b) ==
    /\ b # 0
    /\ Abs(n) * Abs(b) <= Abs(a)
    /\ Abs(a) < (Abs(n) + 1) * Abs(b)
    /\ n > 0 => (a < 0) = (b < 0)
    /\ n < 0 => (a < 0) # (b < 0)

(* n is the floor of the quotient a / b: n <= a / b < n + 1 *)
IsFlooredQuotient(n, a, b) ==
    /\ b # 0
    /\ b > 0 => (n * b <= a /\ a < (n + 1) * b)
    /\ b < 0 => (n * b >= a /\ a > (n + 1) * b)

(* n is int(a / b) for operands of the type passed *)
IsIntOfQuotient(n, a, b) ==
    /\ argType = "float" => IsTruncatedQuotient(n, a, b)
    /\ argType = "int" => IsFlooredQuotient(n, a, b)
    /\ ((a < 0) = (b < 0) \/ a = 0) => IsTruncatedQuotient(n, a, b)

Sized == Has(locals, "numberOfBoundaryLayerCells")

(* C1: the three grid counts are quotients truncated toward zero: nx of   *)
(* desiredDomainWidth / cellSize, ny of desiredFineRegionHeight /         *)
(* cellSize, numberOfBoundaryLayerCells of boundaryLayerHeight /          *)
(* actualDomainWidth, with actualDomainWidth = nx * cellSize,             *)
(* actualFineRegionHeight = ny * cellSize and boundaryLayerHeight =       *)
(* desiredDomainHeight - actualFineRegionHeight - transitionRegionHeight, *)
(* whenever the divisions are defined.                                    *)
C1_CountsAreTruncatedQuotients ==
    /\ Has(locals, "nx") =>
          /\ IsTruncatedQuotient(locals.nx, desiredDomainWidth, cellSize)
          /\ IsTruncatedQuotient(locals.ny, desiredFineRegionHeight, cellSize)
          /\ locals.actualDomainWidth = locals.nx * cellSize
          /\ locals.actualFineRegionHeight = locals.ny * cellSize
          /\ locals.boundaryLayerHeight =
                desiredDomainHeight - locals.actualFineRegionHeight
                                    - transitionRegionHeight
    /\ Sized =>
          IsTruncatedQuotient(locals.numberOfBoundaryLayerCells,
                              locals.boundaryLayerHeight,
                              locals.actualDomainWidth)
    /\ (pc # "called" /\ cellSize # 0) => Has(locals, "nx")
    /\ (Has(locals, "nx") /\ locals.actualDomainWidth # 0) => Sized

(* C1, amended: the three grid counts are int(a / b) of the same three   *)
(* quotients, with the same actualDomainWidth, actualFineRegionHeight and *)
(* boundaryLayerHeight: the quotient truncated toward zero when the sizes *)
(* are floats, and the floor of the quotient when they are ints, which is *)
(* the truncated quotient whenever the quotient is not negative; whenever *)
(* the divisions are defined.                                             *)
C1_CountsAreIntOfQuotients ==
    /\ Has(locals, "nx") =>
          /\ IsIntOfQuotient(locals.nx, desiredDomainWidth, cellSize)
          /\ IsIntOfQuotient(locals.ny, desiredFineRegionHeight, cellSize)
          /\ locals.actualDomainWidth = locals.nx * cellSize
          /\ locals.actualFineRegionHeight = locals.ny * cellSize
          /\ locals.boundaryLayerHeight =
                desiredDomainHeight - locals.actualFineRegionHeight
                                    - transitionRegionHeight
    /\ Sized =>
          IsIntOfQuotient(locals.numberOfBoundaryLayerCells,
                          locals.boundaryLayerHeight,
                          locals.actualDomainWidth)
    /\ (pc # "called" /\ cellSize # 0) => Has(locals, "nx")
    /\ (Has(locals, "nx") /\ locals.actualDomainWidth # 0) => Sized

(* a sized call with float sizes in which neither the width nor the       *)
(* boundary layer divides evenly and the boundary-layer quotient is       *)
(* negative, so that truncating and flooring differ                       *)
C1_Witness ==
    /\ Sized
    /\ argType = "float"
    /\ locals.nx * cellSize # desiredDomainWidth
    /\ locals.boundaryLayerHeight < 0
    /\ locals.actualDomainWidth > 0
    /\ locals.numberOfBoundaryLayerCells * locals.actualDomainWidth
          # locals.boundaryLayerHeight

PositiveSizes ==
    /\ cellSize > 0
    /\ desiredDomainWidth > 0
    /\ desiredDomainHeight > 0
    /\ desiredFineRegionHeight > 0
    /\ transitionRegionHeight > 0

(* C2: with five positive sizes, once the sizing arithmetic has completed *)
(* nx, ny and numberOfBoundaryLayerCells are all non-negative.            *)
C2_CountsNonNegative ==
    (PositiveSizes /\ Sized) =>
        /\ locals.nx >= 0
        /\ locals.ny >= 0
        /\ locals.numberOfBoundaryLayerCells >= 0

(* C3: when cellSize is 0, or desiredDomainWidth / cellSize truncates to  *)
(* 0, the constructor ends with the ZeroDivisionError of the sizing       *)
(* arithmetic, the fine mesh is never set and Gmsh2D.__init__ is never    *)
(* called.                                                                *)
C3_DivisionErrorPropagates ==
    (pc # "called"
       /\ \/ cellSize = 0
          \/ Has(locals, "nx") /\ locals.nx = 0
          \/ argType = "float"
                /\ IsTruncatedQuotient(0, desiredDomainWidth, cellSize)) =>
        /\ pc = "raised"
        /\ exception = "ZeroDivisionError"
        /\ ~Has(self, "fineMesh")
        /\ gmshCall = Empty

(* the error of line 148: a non-zero width narrower than one cell *)
C3_Witness ==
    /\ pc = "raised"
    /\ exception = "ZeroDivisionError"
    /\ cellSize # 0
    /\ desiredDomainWidth # 0
    /\ locals.nx = 0

SameScript(c1, c2) ==
    \/ c1 = Empty /\ c2 = Empty
    \/ c1 # Empty /\ c2 # Empty /\ c1.arg = c2.arg

(* C5: the communicator reaches Gmsh2D.__init__ unchanged and nothing     *)
(* else: the fine mesh is built with serialComm, and two constructions    *)
(* from the same sizes end with the same nx, ny,                          *)
(* numberOfBoundaryLayerCells, eps, script and fine mesh whatever their   *)
(* communicators.                                                         *)
C5_CommunicatorPassThrough ==
    /\ pc = "done" => gmshCall.communicator = communicator
    /\ Has(self, "fineMesh") => self.fineMesh.communicator = "serialComm"
    /\ (prev # Empty /\ pc \in {"done", "raised"}) =>
          /\ locals = prev.locals
          /\ self = prev.self
          /\ SameScript(gmshCall, prev.gmshCall)
          /\ exception = prev.exception

(* two completed constructions with different communicators *)
C5_Witness ==
    /\ pc = "done"
    /\ prev # Empty
    /\ prev.gmshCall # Empty
    /\ prev.communicator # communicator

(* x.mant * 10^x.exp in units of 10^e, for e <= x.exp *)
DecimalAt(x, e) == x.mant * Pow10(x.exp - e)

LowExp(x, y) == IF x.exp < y.exp THEN x.exp ELSE y.exp

(* the characteristic length the script assigns, cellSize - eps, and the  *)
(* cellSize it prints, both in units of 10^LowExp                         *)
ScriptCellSize(script) ==
    DecimalAt(script.cellSize, LowExp(script.cellSize, script.eps))

ScriptCharacteristicLength(script) ==
    ScriptCellSize(script)
        - DecimalAt(script.eps, LowExp(script.cellSize, script.eps))

(* C7: eps is cellSize / (10 * nx) when the gmsh version is older than    *)
(* 2.7 and 0 otherwise; so for nx >= 1 and cellSize > 0 the               *)
(* characteristic length cellSize - eps, also as written to the script,   *)
(* lies in (0, cellSize], and nx * eps is at most cellSize / 10.          *)
C7_EpsOffset ==
    Has(locals, "eps") =>
        /\ IF gmshVersion[1] < 2 \/ (gmshVersion[1] = 2 /\ gmshVersion[2] < 7)
           THEN /\ locals.eps.den # 0
                /\ locals.eps.num * 10 * locals.nx = cellSize * locals.eps.den
           ELSE locals.eps.num = 0 /\ locals.eps.den # 0
        /\ (locals.nx >= 1 /\ cellSize > 0) =>
              /\ locals.eps.den > 0
              /\ 0 < cellSize * locals.eps.den - locals.eps.num
              /\ cellSize * locals.eps.den - locals.eps.num
                    <= cellSize * locals.eps.den
              /\ 10 * locals.nx * locals.eps.num <= cellSize * locals.eps.den
              /\ pc = "done" =>
                    /\ 0 < ScriptCharacteristicLength(gmshCall.arg)
                    /\ ScriptCharacteristicLength(gmshCall.arg)
                          <= ScriptCellSize(gmshCall.arg)

(* a script with a non-zero offset that "%g" had to round *)
C7_Witness ==
    /\ pc = "done"
    /\ locals.nx >= 2
    /\ cellSize > 0
    /\ locals.eps.num # 0
    /\ gmshCall.arg.eps.mant >= Pow10(SigDigits - 1)

(* C8: when numberOfBoundaryLayerCells >= 1, with positive                *)
(* boundaryLayerHeight and actualDomainWidth, the height of one layer,    *)
(* boundaryLayerHeight / numberOfBoundaryLayerCells, is at least          *)
(* actualDomainWidth and less than twice actualDomainWidth; when          *)
(* 0 <= boundaryLayerHeight < actualDomainWidth the count is 0 and the    *)
(* script asks for zero layers.                                           *)
C8_BoundaryLayerCellHeight ==
    /\ (/\ Sized
        /\ locals.numberOfBoundaryLayerCells >= 1
        /\ locals.boundaryLayerHeight > 0
        /\ locals.actualDomainWidth > 0) =>
          /\ locals.actualDomainWidth * locals.numberOfBoundaryLayerCells
                <= locals.boundaryLayerHeight
          /\ locals.boundaryLayerHeight
                < 2 * locals.actualDomainWidth * locals.numberOfBoundaryLayerCells
    /\ (/\ Has(locals, "boundaryLayerHeight")
        /\ 0 <= locals.boundaryLayerHeight
        /\ locals.boundaryLayerHeight < locals.actualDomainWidth) =>
          /\ Sized
          /\ locals.numberOfBoundaryLayerCells = 0
          /\ pc = "done" =>
                gmshCall.arg.numberOfBoundaryLayerCells = [mant |-> 0, exp |-> 0]

(* two or more layers, each taller than the domain is wide *)
C8_Witness ==
    /\ pc = "done"
    /\ locals.numberOfBoundaryLayerCells >= 2
    /\ locals.actualDomainWidth > 0
    /\ locals.numberOfBoundaryLayerCells * locals.actualDomainWidth
          < locals.boundaryLayerHeight

(* C9: actualFineRegionHeight + transitionRegionHeight +                  *)
(* boundaryLayerHeight = desiredDomainHeight: the boundary layer takes up *)
(* the height the fine region loses by truncation, while the width of the *)
(* script is the truncated width nx * cellSize.                           *)
C9_HeightsSumToDesired ==
    /\ Has(locals, "boundaryLayerHeight") =>
          /\ locals.actualFineRegionHeight + transitionRegionHeight
                + locals.boundaryLayerHeight = desiredDomainHeight
          /\ locals.boundaryLayerHeight
                - (desiredDomainHeight - desiredFineRegionHeight
                                       - transitionRegionHeight)
                = desiredFineRegionHeight - locals.actualFineRegionHeight
    /\ pc = "done" =>
          gmshCall.arg.width = FormatInt(locals.nx * cellSize)

(* a mesh whose fine region and width both lost a part to truncation *)
C9_Witness ==
    /\ pc = "done"
    /\ cellSize > 0
    /\ locals.actualFineRegionHeight < desiredFineRegionHeight
    /\ locals.actualDomainWidth < desiredDomainWidth
    /\ locals.ny >= 1

====
